---- MODULE Spec2Model ----
(***************************************************************************)
(* A model of the forward-pass components of the GPT-style model of this   *)
(* repository: MultiHeadAttention, LayerNorm, FeedForward and              *)
(* TransformerBlock (chapter 4.5), the masking demonstration (chapter      *)
(* 3.5.2) and generate_text_simple (chapter 5.1.2).                        *)
(*                                                                         *)
(* Arithmetic is over the reals, computed exactly: integers and rationals  *)
(* where the code's result is rational, and terms (tagged tuples) where it *)
(* is not (a learned projection, a square root, tanh, exp of a term).      *)
(* Floating-point rounding is not modelled.                                *)
(***************************************************************************)
EXTENDS Integers, Sequences, FiniteSets, TLC

VARIABLES
    ctor,   \* an object under construction: __init__ of a module, line by line
    mod,    \* the constructed module the forward calls go to
    rng,    \* the state of torch's global random generator
    call,   \* the forward call in progress or last completed
    pair,   \* two executions of the same module, side by side
    fn,     \* the argument and result of a tensor function applied on its own
    gen,    \* the frame of generate_text_simple
    heap    \* the storages of the tensors: what forward may write in place

vars == <<ctor, mod, rng, call, pair, fn, gen, heap>>

Null == <<"none">>

----------------------------------------------------------------------------
(* Python integer arithmetic: % takes the sign of the divisor, // floors.  *)
(* Both raise ZeroDivisionError on a zero divisor; callers test for it.    *)

Abs(a) == IF a < 0 THEN -a ELSE a

PyMod(a, b) ==
    IF b > 0 THEN a % b
    ELSE LET r == (-a) % (-b) IN -r

PyFloorDiv(a, b) == (a - PyMod(a, b)) \div b

RECURSIVE Gcd(_, _)
Gcd(a, b) == IF b = 0 THEN Abs(a) ELSE Gcd(b, a % b)

Min(a, b) == IF a <= b THEN a ELSE b
Max(a, b) == IF a >= b THEN a ELSE b

----------------------------------------------------------------------------
(* Construction.                                                           *)

\* Bounds of the constructor arguments that are tried.
MinDim == 2       \* dimensions from -MinDim ...
MaxDim == 4       \* ... to MaxDim

\* GPT_CONFIG_124M
EmbDim124M == 768
NHeads124M == 12

DimVals == (0 - MinDim)..MaxDim
DOutVals == DimVals \cup {EmbDim124M}
HeadVals == DimVals \cup {NHeads124M - 1, NHeads124M}

\* torch.empty / torch.ones / torch.zeros with the given sizes: a negative
\* size raises RuntimeError, a zero size gives an empty tensor.
SizesOk(sizes) == \A i \in 1..Len(sizes) : sizes[i] >= 0

\* nn.Linear(in_features, out_features): allocates the [out, in] weight.
LinearOk(in_f, out_f) == SizesOk(<<out_f, in_f>>)

\* torch.triu(torch.ones(n, n), diagonal=1): 1 strictly above the diagonal.
Triu(n, diagonal) ==
    SubSeq([i \in 1..n |->
               SubSeq([j \in 1..n |-> IF j - i >= diagonal THEN 1 ELSE 0], 1, n)], 1, n)

NewCtor(kind, a) ==
    [kind |-> kind, args |-> a,
     pc |-> IF kind = "TransformerBlock" THEN "tb8" ELSE "mha41",
     status |-> "running", error |-> "none", created |-> <<>>,
     d_out |-> 0, num_heads |-> 0, head_dim |-> 0, mask |-> <<>>]

CtorArgs ==
    [d_in : DimVals, d_out : DOutVals, context_length : DimVals, num_heads : HeadVals]

\* TransformerBlock passes cfg["emb_dim"] as both d_in and d_out.
BlockArgs == {a \in CtorArgs : a.d_in = a.d_out}

Raise(c, err) == [c EXCEPT !.status = "raised", !.error = err, !.pc = "end"]

\* TransformerBlock.__init__, line 8: self.att = MultiHeadAttention(...)
\* enters MultiHeadAttention.__init__.
Tb8 ==
    /\ ctor.status = "running" /\ ctor.pc = "tb8"
    /\ ctor' = [ctor EXCEPT !.pc = "mha41"]

\* MultiHeadAttention.__init__, line 41: the assert.  First a variant that
\* is not the source's, __init__ without the assert, which C5 must tell
\* from Mha41.
Mha41Unchecked(c) == [c EXCEPT !.pc = "mha43"]

Mha41(c) ==
    IF c.args.num_heads = 0 THEN Raise(c, "ZeroDivisionError")
    ELSE IF PyMod(c.args.d_out, c.args.num_heads) # 0 THEN Raise(c, "AssertionError")
    ELSE [c EXCEPT !.pc = "mha43"]

\* lines 43-45: d_out, num_heads, head_dim.
Mha43(c) ==
    [c EXCEPT !.d_out = c.args.d_out, !.num_heads = c.args.num_heads,
              !.head_dim = PyFloorDiv(c.args.d_out, c.args.num_heads),
              !.pc = "mha47"]

\* lines 47-50: the four nn.Linear layers, one per step.
MhaLinear(c, name, in_f, out_f, next) ==
    IF LinearOk(in_f, out_f)
    THEN [c EXCEPT !.created = Append(c.created, name), !.pc = next]
    ELSE Raise(c, "RuntimeError")

\* line 51: nn.Dropout(dropout).
Mha51(c) == [c EXCEPT !.created = Append(c.created, "dropout"), !.pc = "mha52"]

\* line 52: register_buffer("mask", torch.triu(torch.ones(ctx, ctx), diagonal=1)).
Mha52(c) ==
    IF SizesOk(<<c.args.context_length, c.args.context_length>>)
    THEN [c EXCEPT !.created = Append(c.created, "mask"),
                   !.mask = Triu(c.args.context_length, 1),
                   !.pc = IF c.kind = "TransformerBlock" THEN "tb16" ELSE "end",
                   !.status = IF c.kind = "TransformerBlock" THEN "running" ELSE "built"]
    ELSE Raise(c, "RuntimeError")

MhaInitStep(c) ==
    CASE c.pc = "mha41" -> Mha41(c)
      [] c.pc = "mha43" -> Mha43(c)
      [] c.pc = "mha47" -> MhaLinear(c, "W_query", c.args.d_in, c.args.d_out, "mha48")
      [] c.pc = "mha48" -> MhaLinear(c, "W_key", c.args.d_in, c.args.d_out, "mha49")
      [] c.pc = "mha49" -> MhaLinear(c, "W_value", c.args.d_in, c.args.d_out, "mha50")
      [] c.pc = "mha50" -> MhaLinear(c, "out_proj", c.args.d_out, c.args.d_out, "mha51")
      [] c.pc = "mha51" -> Mha51(c)
      [] c.pc = "mha52" -> Mha52(c)

MhaPcs == {"mha41", "mha43", "mha47", "mha48", "mha49", "mha50", "mha51", "mha52"}

MhaInit ==
    /\ ctor.status = "running" /\ ctor.pc \in MhaPcs
    /\ ctor' = MhaInitStep(ctor)

\* TransformerBlock.__init__, lines 16-19: FeedForward (two nn.Linear),
\* the two LayerNorm (torch.ones / torch.zeros of emb_dim) and the dropout.
TbInitStep(c) ==
    LET emb == c.args.d_in IN
    CASE c.pc = "tb16" ->
            IF LinearOk(emb, 4 * emb) /\ LinearOk(4 * emb, emb)
            THEN [c EXCEPT !.created = Append(c.created, "ff"), !.pc = "tb17"]
            ELSE Raise(c, "RuntimeError")
      [] c.pc = "tb17" ->
            IF SizesOk(<<emb>>)
            THEN [c EXCEPT !.created = Append(c.created, "norm1"), !.pc = "tb18"]
            ELSE Raise(c, "RuntimeError")
      [] c.pc = "tb18" ->
            IF SizesOk(<<emb>>)
            THEN [c EXCEPT !.created = Append(c.created, "norm2"), !.pc = "tb19"]
            ELSE Raise(c, "RuntimeError")
      [] c.pc = "tb19" ->
            [c EXCEPT !.created = Append(c.created, "drop_shortcut"),
                      !.pc = "end", !.status = "built"]

TbInit ==
    /\ ctor.status = "running" /\ ctor.pc \in {"tb16", "tb17", "tb18", "tb19"}
    /\ ctor' = TbInitStep(ctor)

InitCtor ==
    /\ \/ \E a \in CtorArgs : ctor = NewCtor("MultiHeadAttention", a)
       \/ \E a \in BlockArgs : ctor = NewCtor("TransformerBlock", a)
    /\ mod = Null /\ rng = 0 /\ call = Null /\ pair = Null /\ fn = Null /\ gen = Null
    /\ heap = Null

NextCtor ==
    /\ (Tb8 \/ MhaInit \/ TbInit)
    /\ UNCHANGED <<mod, rng, call, pair, fn, gen, heap>>

SpecCtor == InitCtor /\ [][NextCtor]_vars

----------------------------------------------------------------------------
(* Tensors: a flat storage, a shape and strides, indexed from 0 as torch   *)
(* does.  view, transpose and contiguous work on them as torch's do.       *)

RECURSIVE Prod(_)
Prod(s) == IF s = <<>> THEN 1 ELSE Head(s) * Prod(Tail(s))

\* The strides of a contiguous (row-major) tensor of the given shape.
RowMajor(shape) ==
    SubSeq([k \in 1..Len(shape) |-> Prod(SubSeq(shape, k + 1, Len(shape)))],
           1, Len(shape))

Numel(t) == Prod(t.shape)

\* The multi-index of the p-th element (p from 0) in row-major order.
Unravel(p, shape) ==
    LET st == RowMajor(shape)
    IN SubSeq([k \in 1..Len(shape) |-> (p \div st[k]) % shape[k]], 1, Len(shape))

RECURSIVE Dot2(_, _)
Dot2(a, b) == IF a = <<>> THEN 0 ELSE Head(a) * Head(b) + Dot2(Tail(a), Tail(b))

\* t[idx]: the storage is addressed through the strides.
At(t, idx) == t.data[1 + Dot2(idx, t.stride)]

IsContiguous(t) == t.stride = RowMajor(t.shape)

\* A new contiguous tensor holding data (in row-major order).
Tensor(shape, data) ==
    [shape |-> shape, stride |-> RowMajor(shape), data |-> SubSeq(data, 1, Prod(shape))]

\* t.view(shape) of a contiguous tensor: the same storage, read with the new
\* shape.  (The code calls view on contiguous tensors only: lines 64-66 on
\* the output of nn.Linear, line 89 after contiguous().)
View(t, shape) ==
    IF IsContiguous(t) /\ Prod(shape) = Numel(t)
    THEN [shape |-> shape, stride |-> RowMajor(shape), data |-> t.data]
    ELSE Null

Swap(s, i, j) == [s EXCEPT ![i] = s[j], ![j] = s[i]]

\* t.transpose(d0, d1), dimensions counted from 0: no data moves, the two
\* dimensions exchange their size and stride.
Transpose(t, d0, d1) ==
    [shape |-> Swap(t.shape, d0 + 1, d1 + 1),
     stride |-> Swap(t.stride, d0 + 1, d1 + 1),
     data |-> t.data]

\* t.contiguous(): the elements copied out in row-major order.
Contiguous(t) ==
    Tensor(t.shape, [p \in 1..Numel(t) |-> At(t, Unravel(p - 1, t.shape))])

\* A variant that is not the source's, the view straight to
\* (b, num_heads, num_tokens, head_dim) without the transpose, which C11
\* must tell from SplitHeads.
SplitHeadsNoTranspose(t, b, num_tokens, num_heads, head_dim) ==
    View(t, <<b, num_heads, num_tokens, head_dim>>)

\* forward, lines 64 and 69 (65/70, 66/71):
\* .view(b, num_tokens, num_heads, head_dim).transpose(1, 2)
SplitHeads(t, b, num_tokens, num_heads, head_dim) ==
    Transpose(View(t, <<b, num_tokens, num_heads, head_dim>>), 1, 2)

\* forward, lines 86 and 89 without the matrix product:
\* .transpose(1, 2).contiguous().view(b, num_tokens, d_out)
\* First a variant that is not the source's, the view without the transpose,
\* which C4 must tell from MergeHeads.
MergeHeadsNoTranspose(t, b, num_tokens, d_out) ==
    View(Contiguous(t), <<b, num_tokens, d_out>>)

MergeHeads(t, b, num_tokens, d_out) ==
    View(Contiguous(Transpose(t, 1, 2)), <<b, num_tokens, d_out>>)

\* Bounds of the tensors split and merged on their own.
MaxB == 2
MaxN == 3
MaxHeads == 3
MaxHeadDim == 3
MaxBase == 2

\* The input has a different value in every element, so that any
\* permutation of the elements shows.
InitView ==
    /\ \E b \in 1..MaxB, n \in 1..MaxN, h \in 1..MaxHeads, hd \in 1..MaxHeadDim,
          base \in 0..MaxBase :
          fn = [op |-> "input", b |-> b, n |-> n, num_heads |-> h, head_dim |-> hd,
                x |-> Tensor(<<b, n, h * hd>>, [p \in 1..(b * n * h * hd) |-> base + p]),
                heads |-> Null, merged |-> Null]
    /\ ctor = Null /\ mod = Null /\ rng = 0 /\ call = Null /\ pair = Null /\ gen = Null
    /\ heap = Null

Split ==
    /\ fn.op = "input"
    /\ fn' = [fn EXCEPT !.op = "split",
                        !.heads = SplitHeads(fn.x, fn.b, fn.n, fn.num_heads, fn.head_dim)]

Merge ==
    /\ fn.op = "split"
    /\ fn' = [fn EXCEPT !.op = "merged",
                        !.merged = MergeHeads(fn.heads, fn.b, fn.n,
                                              fn.num_heads * fn.head_dim)]

NextView ==
    /\ (Split \/ Merge)
    /\ UNCHANGED <<ctor, mod, rng, call, pair, gen, heap>>

SpecView == InitView /\ [][NextView]_vars

----------------------------------------------------------------------------
(* Values.  A tensor element is a tagged tuple: <<"int", k>>, <<"rat", n,  *)
(* d>> (n/d in lowest terms, d > 0), <<"-inf">>, or a term naming the      *)
(* computation that produced it.  Terms are equal only when the same       *)
(* computation was applied to the same operands.                           *)

IntV(k) == <<"int", k>>
Zero == IntV(0)
NegInf == <<"-inf">>
IsZero(v) == v[1] = "int" /\ v[2] = 0
IsNegInf(v) == v[1] = "-inf"

Rat(n, d) ==
    LET g == Gcd(n, d)
        sgn == IF d < 0 THEN -1 ELSE 1
    IN <<"rat", sgn * (n \div g), sgn * (d \div g)>>

\* Element f of the row a module computed from a whole input row.
AtRow(f, rowTerm) == <<"at", f, rowTerm>>

\* The last-axis slice x[bi, t, :] of a [b, n, d] tensor.  A slice that is
\* exactly the elements 0..d-1 of one computed row is that row.
RowOf(x, bi, t) ==
    LET d == x.shape[3]
        e == SubSeq([i \in 1..d |-> At(x, <<bi, t, i - 1>>)], 1, d)
    IN IF /\ d > 0
          /\ \A i \in 1..d : e[i][1] = "at" /\ e[i][2] = i - 1
          /\ \A i \in 1..d : e[i][3] = e[1][3]
       THEN e[1][3]
       ELSE <<"vec", e>>

\* A module that maps every last-axis slice on its own (nn.Linear,
\* LayerNorm, GELU, FeedForward): [b, n, d] -> [b, n, out_f].
PerRow(tag, params, x, out_f) ==
    LET b == x.shape[1]
        n == x.shape[2]
        rows == SubSeq([q \in 1..(b * n) |->
                           <<tag, params, RowOf(x, (q - 1) \div n, (q - 1) % n)>>],
                       1, b * n)
    IN Tensor(<<b, n, out_f>>,
              [p \in 1..(b * n * out_f) |->
                  AtRow((p - 1) % out_f, rows[1 + ((p - 1) \div out_f)])])

\* nn.Linear applied to x: x @ W.T (+ bias), on the last axis.
LinearApply(W, x, out_f) == PerRow("lin", W, x, out_f)

\* sum_l u[l] * v[l].  A product whose left factor is exactly 0 adds
\* nothing (the right factors are finite).
SumProd(u, v) ==
    LET nz == SelectSeq([l \in 1..Len(u) |-> l], LAMBDA l : ~IsZero(u[l]))
    IN IF nz = <<>> THEN Zero
       ELSE <<"dot", SubSeq([l \in 1..Len(nz) |-> <<u[nz[l]], v[nz[l]]>>], 1, Len(nz))>>

\* a @ b for [b, h, n, m] @ [b, h, m, k].
MatMul(a, b) ==
    LET shape == <<a.shape[1], a.shape[2], a.shape[3], b.shape[4]>>
        m == a.shape[4]
    IN Tensor(shape,
              [p \in 1..Prod(shape) |->
                  LET idx == Unravel(p - 1, shape)
                  IN SumProd(SubSeq([l \in 1..m |->
                                        At(a, <<idx[1], idx[2], idx[3], l - 1>>)], 1, m),
                             SubSeq([l \in 1..m |->
                                        At(b, <<idx[1], idx[2], l - 1, idx[4]>>)], 1, m))])

----------------------------------------------------------------------------
(* MultiHeadAttention.forward.                                             *)

\* line 77: self.mask.bool()[:num_tokens, :num_tokens].  A slice bound
\* past the end is clamped, as Python slicing does.
MaskBool(mask, num_tokens) ==
    LET m == Min(num_tokens, Len(mask))
    IN SubSeq([i \in 1..m |-> SubSeq([j \in 1..m |-> mask[i][j] # 0], 1, m)], 1, m)

\* Whether a [m, m] mask can be broadcast to the last two dimensions of
\* the scores, as masked_fill_ needs: a dimension must match or be 1.
Broadcastable(mask_bool, scores) ==
    LET m == Len(mask_bool)
        r == Len(scores.shape)
    IN /\ m >= 1
       /\ (m = scores.shape[r - 1] \/ m = 1)
       /\ (m = scores.shape[r] \/ m = 1)

\* line 80: attn_scores.masked_fill_(mask_bool, -torch.inf), for a mask
\* that can be broadcast: the mask indexes the last two dimensions of the
\* scores.  (3.5.2 line 57 is the same fill of a 2-D score matrix.)
\* First a variant that is not the source's, a fill that also masks the
\* diagonal, which C1 must tell from MaskedFill.
MaskedFillKeepsDiagonalOut(scores, mask_bool) ==
    LET m == Len(mask_bool)
    IN Tensor(scores.shape,
              [p \in 1..Numel(scores) |->
                  LET idx == Unravel(p - 1, scores.shape)
                      r == Len(scores.shape)
                      i == IF m = 1 THEN 1 ELSE idx[r - 1] + 1
                      j == IF m = 1 THEN 1 ELSE idx[r] + 1
                  IN IF mask_bool[i][j] \/ idx[r - 1] = idx[r] THEN NegInf
                     ELSE scores.data[p]])

MaskedFill(scores, mask_bool) ==
    LET m == Len(mask_bool)
    IN Tensor(scores.shape,
              [p \in 1..Numel(scores) |->
                  LET idx == Unravel(p - 1, scores.shape)
                      r == Len(scores.shape)
                      i == IF m = 1 THEN 1 ELSE idx[r - 1] + 1
                      j == IF m = 1 THEN 1 ELSE idx[r] + 1
                  IN IF mask_bool[i][j] THEN NegInf ELSE scores.data[p]])

\* line 82 for scores that are terms: softmax(row / head_dim**0.5) along
\* the last axis.  exp(-inf) is exactly 0; every other weight is a function
\* of the whole (masked) row.
SoftmaxTerms(scores, head_dim) ==
    LET n == scores.shape[4]
        nrows == Numel(scores) \div n
        rows == SubSeq([q \in 1..nrows |-> SubSeq(scores.data, (q - 1) * n + 1, q * n)],
                       1, nrows)
    IN Tensor(scores.shape,
              [p \in 1..Numel(scores) |->
                  IF IsNegInf(scores.data[p]) THEN Zero
                  ELSE <<"softmax", (p - 1) % n, head_dim, rows[1 + ((p - 1) \div n)]>>])

\* torch's generator, reduced to what the model needs: from a given state
\* the draws are determined.  Draw k (from 1) of state r keeps an element
\* unless (r + k) is a multiple of DropPeriod.
DropPeriod == 2
RngStates == 0..(DropPeriod - 1)
Keep(r, k) == (r + k) % DropPeriod # 0
Advance(r, draws) == (r + draws) % DropPeriod

\* nn.Dropout(p)(t): the identity in eval mode or with p = 0; in training
\* mode every element is zeroed or scaled by 1/(1-p), by the next draws.
DropoutActive(m) == m.training /\ m.drop_rate > 0

Dropout(m, t, r) ==
    IF ~DropoutActive(m) THEN [t |-> t, rng |-> r]
    ELSE [t |-> [t EXCEPT !.data =
                    SubSeq([p \in 1..Len(t.data) |->
                               IF Keep(r, p) /\ ~IsZero(t.data[p])
                               THEN <<"scale", m.drop_rate, t.data[p]>>
                               ELSE Zero], 1, Len(t.data))],
          rng |-> Advance(r, Len(t.data))]

Raised(err, r) ==
    [status |-> "raised", error |-> err, scores |-> Null, masked |-> Null,
     weights |-> Null, context |-> Null, out |-> Null, rng |-> r]

\* MultiHeadAttention.forward(x), lines 54-92, with the generator in state r.
MhaForward(m, x, r) ==
    LET b == x.shape[1]
        num_tokens == x.shape[2]
        d_in == x.shape[3]
    IN IF d_in # m.d_in THEN Raised("RuntimeError", r)      \* lines 58-60
       ELSE
       LET queries == SplitHeads(LinearApply(m.params.W_query, x, m.d_out),
                                 b, num_tokens, m.num_heads, m.head_dim)
           keys == SplitHeads(LinearApply(m.params.W_key, x, m.d_out),
                              b, num_tokens, m.num_heads, m.head_dim)
           values == SplitHeads(LinearApply(m.params.W_value, x, m.d_out),
                                b, num_tokens, m.num_heads, m.head_dim)
           attn_scores == MatMul(queries, Transpose(keys, 2, 3))          \* line 74
           mask_bool == MaskBool(m.mask, num_tokens)                      \* line 77
       IN IF ~Broadcastable(mask_bool, attn_scores)                       \* line 80
          THEN Raised("RuntimeError", r)
          ELSE
          LET masked == MaskedFill(attn_scores, mask_bool)                \* line 80
              attn_weights == SoftmaxTerms(masked, keys.shape[4])         \* line 82
              dropped == Dropout(m, attn_weights, r)                      \* line 83
              context_vec == MergeHeads(MatMul(dropped.t, values),        \* lines 86, 89
                                        b, num_tokens, m.d_out)
          IN [status |-> "ok", error |-> "none",
              scores |-> attn_scores, masked |-> masked,
              weights |-> attn_weights, context |-> context_vec,
              out |-> LinearApply(m.params.out_proj, context_vec, m.d_out),  \* line 90
              rng |-> dropped.rng]

----------------------------------------------------------------------------
(* The masking step on its own: lines 77 and 80 of forward on the scores   *)
(* of a module whose mask was registered at line 52, and the masking of    *)
(* the 2-D score matrix of section 3.5.2.                                   *)

MaxMaskCtx == 6    \* context_length; 6 is the sequence length of 3.5.2
MaskB == 2         \* batch size of the scores
MaskHeads == 2     \* num_heads of the scores

\* Scores not yet masked: every entry is a finite value of its own.
ScoreTensor(shape) ==
    Tensor(shape, [p \in 1..Prod(shape) |-> <<"score", Unravel(p - 1, shape)>>])

MaskFrame(op, ctx, n, scores) ==
    [op |-> op, context_length |-> ctx, num_tokens |-> n,
     mask |-> Triu(ctx, 1), mask_bool |-> <<>>, scores |-> scores, masked |-> Null]

InitMask ==
    /\ fn \in {MaskFrame("mha77", ctx, n, ScoreTensor(<<b, h, n, n>>)) :
                  ctx \in 1..MaxMaskCtx, n \in 1..MaxMaskCtx,
                  b \in 1..MaskB, h \in 1..MaskHeads}
             \cup {MaskFrame("demo51", n, n, ScoreTensor(<<n, n>>)) : n \in 1..MaxMaskCtx}
    /\ fn.num_tokens <= fn.context_length
    /\ ctor = Null /\ mod = Null /\ rng = Null /\ call = Null /\ pair = Null /\ gen = Null
    /\ heap = Null

\* forward, line 77: mask_bool = self.mask.bool()[:num_tokens, :num_tokens]
Mask77 ==
    /\ fn.op = "mha77"
    /\ fn' = [fn EXCEPT !.mask_bool = MaskBool(fn.mask, fn.num_tokens), !.op = "mha80"]

\* forward, line 80: attn_scores.masked_fill_(mask_bool, -torch.inf)
Mask80 ==
    /\ fn.op = "mha80"
    /\ fn' = [fn EXCEPT !.masked = MaskedFill(fn.scores, fn.mask_bool), !.op = "masked"]

\* 3.5.2, lines 51-57: context_length = attn_scores.shape[0]; the mask is
\* built for it and used whole.
MaskDemo ==
    /\ fn.op = "demo51"
    /\ LET mask_bool == MaskBool(fn.mask, Len(fn.mask))
       IN fn' = [fn EXCEPT !.mask_bool = mask_bool,
                           !.masked = MaskedFill(fn.scores, mask_bool),
                           !.op = "masked"]

NextMask ==
    /\ (Mask77 \/ Mask80 \/ MaskDemo)
    /\ UNCHANGED <<ctor, mod, rng, call, pair, gen, heap>>

SpecMask == InitMask /\ [][NextMask]_vars

----------------------------------------------------------------------------
(* TransformerBlock.forward, statement by statement.                       *)

\* LayerNorm.forward, lines 102-106, as a function of each last-axis slice
\* (mean and var are taken over dim=-1); it holds its scale and shift.
LayerNormApply(params, x) == PerRow("norm", params, x, x.shape[3])

\* GELU.forward, lines 113-117, element by element.
GeluApply(x) ==
    [x EXCEPT !.data =
        SubSeq([p \in 1..Len(x.data) |->
                   LET e == x.data[p]
                   IN IF e[1] = "at" THEN AtRow(e[2], <<"gelu_each", e[3]>>)
                      ELSE <<"gelu", e>>], 1, Len(x.data))]

\* FeedForward.forward, lines 123-131: Linear(emb, 4 emb), GELU, Linear(4 emb, emb).
FeedForwardApply(params, x, emb_dim) ==
    LinearApply(params.ff2, GeluApply(LinearApply(params.ff1, x, 4 * emb_dim)), emb_dim)

\* a + b for tensors of one shape.
AddT(a, b) ==
    [a EXCEPT !.data = SubSeq([p \in 1..Len(a.data) |-> <<"add", a.data[p], b.data[p]>>],
                              1, Len(a.data))]

NewCall(kind, x, pc) ==
    [kind |-> kind, pc |-> pc, status |-> "running", error |-> "none",
     input |-> x, x |-> x, shortcut |-> Null, ops |-> <<>>,
     att |-> Null, out |-> Null]

Did(c, op) == Append(c.ops, op)

\* One statement of TransformerBlock.forward: the frame c and the generator
\* state r after it.
\* First a variant that is not the source's, in which line 30 saves the
\* block's input as the second shortcut, which C8 must tell from BlockStep.
BlockStepShortcutIsInput(m, c, r) ==
    CASE c.pc = "tb23" ->
            [c |-> [c EXCEPT !.shortcut = c.x, !.ops = Did(c, "shortcut"), !.pc = "tb24"],
             rng |-> r]
      [] c.pc = "tb24" ->
            [c |-> [c EXCEPT !.x = LayerNormApply(m.params.norm1, c.x),
                             !.ops = Did(c, "norm1"), !.pc = "tb25"],
             rng |-> r]
      [] c.pc = "tb25" ->
            LET a == MhaForward(m, c.x, r)
            IN IF a.status = "raised"
               THEN [c |-> [c EXCEPT !.status = "raised", !.error = a.error,
                                     !.att = a, !.pc = "done"],
                     rng |-> a.rng]
               ELSE [c |-> [c EXCEPT !.x = a.out, !.att = a,
                                     !.ops = Did(c, "att"), !.pc = "tb26"],
                     rng |-> a.rng]
      [] c.pc \in {"tb26", "tb33"} ->
            LET d == Dropout(m, c.x, r)
            IN [c |-> [c EXCEPT !.x = d.t, !.ops = Did(c, "dropout"),
                                !.pc = IF c.pc = "tb26" THEN "tb27" ELSE "tb34"],
                rng |-> d.rng]
      [] c.pc \in {"tb27", "tb34"} ->
            [c |-> [c EXCEPT !.x = AddT(c.x, c.shortcut), !.ops = Did(c, "add"),
                             !.pc = IF c.pc = "tb27" THEN "tb30" ELSE "tb36"],
             rng |-> r]
      [] c.pc = "tb30" ->
            [c |-> [c EXCEPT !.shortcut = c.input, !.ops = Did(c, "shortcut"), !.pc = "tb31"],
             rng |-> r]
      [] c.pc = "tb31" ->
            [c |-> [c EXCEPT !.x = LayerNormApply(m.params.norm2, c.x),
                             !.ops = Did(c, "norm2"), !.pc = "tb32"],
             rng |-> r]
      [] c.pc = "tb32" ->
            [c |-> [c EXCEPT !.x = FeedForwardApply(m.params, c.x, m.d_out),
                             !.ops = Did(c, "ff"), !.pc = "tb33"],
             rng |-> r]
      [] c.pc = "tb36" ->
            [c |-> [c EXCEPT !.out = c.x, !.status = "returned", !.pc = "done"],
             rng |-> r]

BlockStep(m, c, r) ==
    CASE c.pc = "tb23" ->
            [c |-> [c EXCEPT !.shortcut = c.x, !.ops = Did(c, "shortcut"), !.pc = "tb24"],
             rng |-> r]
      [] c.pc = "tb24" ->
            [c |-> [c EXCEPT !.x = LayerNormApply(m.params.norm1, c.x),
                             !.ops = Did(c, "norm1"), !.pc = "tb25"],
             rng |-> r]
      [] c.pc = "tb25" ->
            LET a == MhaForward(m, c.x, r)
            IN IF a.status = "raised"
               THEN [c |-> [c EXCEPT !.status = "raised", !.error = a.error,
                                     !.att = a, !.pc = "done"],
                     rng |-> a.rng]
               ELSE [c |-> [c EXCEPT !.x = a.out, !.att = a,
                                     !.ops = Did(c, "att"), !.pc = "tb26"],
                     rng |-> a.rng]
      [] c.pc \in {"tb26", "tb33"} ->
            LET d == Dropout(m, c.x, r)
            IN [c |-> [c EXCEPT !.x = d.t, !.ops = Did(c, "dropout"),
                                !.pc = IF c.pc = "tb26" THEN "tb27" ELSE "tb34"],
                rng |-> d.rng]
      [] c.pc \in {"tb27", "tb34"} ->
            [c |-> [c EXCEPT !.x = AddT(c.x, c.shortcut), !.ops = Did(c, "add"),
                             !.pc = IF c.pc = "tb27" THEN "tb30" ELSE "tb36"],
             rng |-> r]
      [] c.pc = "tb30" ->
            [c |-> [c EXCEPT !.shortcut = c.x, !.ops = Did(c, "shortcut"), !.pc = "tb31"],
             rng |-> r]
      [] c.pc = "tb31" ->
            [c |-> [c EXCEPT !.x = LayerNormApply(m.params.norm2, c.x),
                             !.ops = Did(c, "norm2"), !.pc = "tb32"],
             rng |-> r]
      [] c.pc = "tb32" ->
            [c |-> [c EXCEPT !.x = FeedForwardApply(m.params, c.x, m.d_out),
                             !.ops = Did(c, "ff"), !.pc = "tb33"],
             rng |-> r]
      [] c.pc = "tb36" ->
            [c |-> [c EXCEPT !.out = c.x, !.status = "returned", !.pc = "done"],
             rng |-> r]

----------------------------------------------------------------------------
(* The module in use and the calls made to it.                             *)

\* Bounds of the modules and inputs of the forward calls.
MaxDIn == 1        \* d_in of a MultiHeadAttention used on its own
FwdHeads == 2      \* its num_heads
FwdHeadDim == 2    \* its head_dim: d_out = num_heads * head_dim
MaxEmb == 2        \* emb_dim of a TransformerBlock
MaxCtx == 3        \* context_length; inputs have up to MaxCtx + 1 tokens
MaxBatch == 1

\* An input position holds one of two tokens.
TokVals == {0, 1}

\* GPT_CONFIG_124M["drop_rate"], in tenths.
DropRateTenths == 1

\* __init__ run to its end.
RECURSIVE RunCtor(_)
RunCtor(c) ==
    IF c.pc = "end" THEN c
    ELSE IF c.pc = "tb8" THEN RunCtor([c EXCEPT !.pc = "mha41"])
    ELSE IF c.pc \in MhaPcs THEN RunCtor(MhaInitStep(c))
    ELSE RunCtor(TbInitStep(c))

\* The learned parameters: created at construction, named by their layer.
Params ==
    [W_query |-> <<"param", "W_query">>, W_key |-> <<"param", "W_key">>,
     W_value |-> <<"param", "W_value">>, out_proj |-> <<"param", "out_proj">>,
     norm1 |-> <<"param", "norm1">>, norm2 |-> <<"param", "norm2">>,
     ff1 |-> <<"param", "ff.layers.0">>, ff2 |-> <<"param", "ff.layers.2">>]

\* The module a successful construction leaves: nn.Module starts in
\* training mode.
Module(c, drop_rate) ==
    [kind |-> c.kind, d_in |-> c.args.d_in, d_out |-> c.d_out,
     num_heads |-> c.num_heads, head_dim |-> c.head_dim,
     context_length |-> c.args.context_length, mask |-> c.mask,
     drop_rate |-> drop_rate, training |-> TRUE, params |-> Params]

AttentionArgs ==
    {[d_in |-> d_in, d_out |-> h * hd, context_length |-> ctx, num_heads |-> h] :
        d_in \in 1..MaxDIn, h \in 1..FwdHeads, hd \in 1..FwdHeadDim, ctx \in 1..MaxCtx}

BlockCfgs ==
    {[d_in |-> emb, d_out |-> emb, context_length |-> ctx, num_heads |-> h] :
        emb \in 1..MaxEmb, h \in 1..MaxEmb, ctx \in 1..MaxCtx}

\* The modules whose construction succeeds.
Modules ==
    {Module(c, dr) :
        c \in {c \in {RunCtor(NewCtor("MultiHeadAttention", a)) : a \in AttentionArgs}
                      \cup {RunCtor(NewCtor("TransformerBlock", a)) : a \in BlockCfgs} :
                  c.status = "built"},
        dr \in {0, DropRateTenths}}

\* An input of shape [b, n, d]: position t holds token toks[t].
XInput(b, n, d, toks) ==
    Tensor(<<b, n, d>>,
           [p \in 1..(b * n * d) |->
               LET idx == Unravel(p - 1, <<b, n, d>>)
               IN IntV(toks[idx[2] + 1] + idx[3] + idx[1])])

\* Token sequences of n tokens: all of them, and the one that starts with
\* token 0 and alternates.
TokSeqs(n) == [1..n -> TokVals]
Alternating(n) ==
    {toks \in TokSeqs(n) : toks[1] = 0 /\ \A t \in 1..(n - 1) : toks[t + 1] # toks[t]}

\* The shapes and token sequences of the inputs of the calls.
InputTokens == UNION {Alternating(n) : n \in 1..(MaxCtx + 1)}

\* Before the first call there is no frame.
NoCall == NewCall("none", Null, "done")

Init ==
    /\ mod \in Modules
    /\ rng \in RngStates
    /\ call = NoCall
    /\ ctor = Null /\ pair = Null /\ fn = Null /\ gen = Null
    /\ heap = Null

Idle == call.pc = "done"

\* torch.manual_seed(seed)
ManualSeed ==
    /\ Idle
    /\ \E seed \in RngStates : rng' = seed
    /\ UNCHANGED <<mod, call>>

\* nn.Module.eval()
Eval ==
    /\ Idle /\ mod.training
    /\ mod' = [mod EXCEPT !.training = FALSE]
    /\ UNCHANGED <<rng, call>>

\* A call of MultiHeadAttention.forward, on an input whose last dimension
\* is d_in or not.
CallAttention ==
    /\ Idle /\ mod.kind = "MultiHeadAttention"
    /\ \E b \in 1..MaxBatch, toks \in InputTokens, d \in {mod.d_in, mod.d_in + 1} :
          LET x == XInput(b, Len(toks), d, toks)
              a == MhaForward(mod, x, rng)
          IN /\ d = mod.d_in \/ Len(toks) = 1
             /\ call' = [NewCall("MultiHeadAttention", x, "done") EXCEPT
                            !.status = IF a.status = "ok" THEN "returned" ELSE "raised",
                            !.error = a.error, !.att = a, !.out = a.out]
             /\ rng' = a.rng
    /\ UNCHANGED mod

\* A call of TransformerBlock.forward: entry.
CallBlock ==
    /\ Idle /\ mod.kind = "TransformerBlock"
    /\ \E b \in 1..MaxBatch, toks \in InputTokens :
          call' = NewCall("TransformerBlock", XInput(b, Len(toks), mod.d_in, toks), "tb23")
    /\ UNCHANGED <<mod, rng>>

\* TransformerBlock.forward: the next statement.
StepBlock ==
    /\ call.pc # "done"
    /\ LET s == BlockStep(mod, call, rng)
       IN call' = s.c /\ rng' = s.rng
    /\ UNCHANGED mod

Next ==
    /\ (ManualSeed \/ Eval \/ CallAttention \/ CallBlock \/ StepBlock)
    /\ UNCHANGED <<ctor, pair, fn, gen, heap>>

Spec == Init /\ [][Next]_vars

----------------------------------------------------------------------------
(* Two calls of forward on one module, from the same generator state, on   *)
(* two inputs of the same shape.                                           *)

InitPair ==
    /\ \E m \in Modules, r \in RngStates, n \in 1..MaxCtx :
          \E t1 \in Alternating(n), t2 \in TokSeqs(n) :
              pair = [op |-> "inputs", m |-> m, n |-> n, r |-> <<r, r>>,
                      x |-> <<XInput(1, n, m.d_in, t1), XInput(1, n, m.d_in, t2)>>,
                      c |-> <<NoCall, NoCall>>]
    /\ ctor = Null /\ mod = Null /\ rng = Null /\ call = Null /\ fn = Null /\ gen = Null
    /\ heap = Null

\* nn.Module.eval() before the two calls
PairEval ==
    /\ pair.op = "inputs" /\ pair.m.training
    /\ pair' = [pair EXCEPT !.m.training = FALSE]

\* The frame of a call of MultiHeadAttention.forward that has ended.
AttentionFrame(x, a) ==
    [NewCall("MultiHeadAttention", x, "done") EXCEPT
        !.status = IF a.status = "ok" THEN "returned" ELSE "raised",
        !.error = a.error, !.out = a.out]

\* MultiHeadAttention.forward on both inputs.
PairAttention ==
    /\ pair.op = "inputs" /\ pair.m.kind = "MultiHeadAttention"
    /\ pair' = [pair EXCEPT
                   !.c = <<AttentionFrame(pair.x[1], MhaForward(pair.m, pair.x[1], pair.r[1])),
                           AttentionFrame(pair.x[2], MhaForward(pair.m, pair.x[2], pair.r[2]))>>,
                   !.op = "done"]

\* TransformerBlock.forward on both inputs: entry.
PairCallBlock ==
    /\ pair.op = "inputs" /\ pair.m.kind = "TransformerBlock"
    /\ pair' = [pair EXCEPT
                   !.c = <<NewCall("TransformerBlock", pair.x[1], "tb23"),
                           NewCall("TransformerBlock", pair.x[2], "tb23")>>,
                   !.op = "running"]

\* TransformerBlock.forward on both inputs: the next statement of each.  The
\* intermediate tensors of the attention are not kept in the frames.
PairStepBlock ==
    /\ pair.op = "running"
    /\ \E s1 \in {BlockStep(pair.m, pair.c[1], pair.r[1])},
          s2 \in {BlockStep(pair.m, pair.c[2], pair.r[2])} :
          pair' = [pair EXCEPT
                      !.c = <<[s1.c EXCEPT !.att = Null], [s2.c EXCEPT !.att = Null]>>,
                      !.r = <<s1.rng, s2.rng>>,
                      !.op = IF s1.c.pc = "done" THEN "done" ELSE "running"]

NextPair ==
    /\ (PairEval \/ PairAttention \/ PairCallBlock \/ PairStepBlock)
    /\ UNCHANGED <<ctor, mod, rng, call, fn, gen, heap>>

SpecPair == InitPair /\ [][NextPair]_vars

----------------------------------------------------------------------------
(* Masking and softmax on numbers (lines 74-82).  A score k stands for     *)
(* k * ln 2, so that exp(score) is the integer 2^k and every weight is a   *)
(* rational computed exactly.                                              *)

MaxSoftN == 3      \* num_tokens and context_length
MaxRoot == 2       \* head_dim is a square: 1, 4, ...
MaxQ == 2          \* query entries are 0..MaxQ
KeyVals == {0, 1}  \* key entries

NaN == <<"nan">>

RECURSIVE Pow2(_)
Pow2(k) == IF k = 0 THEN 1 ELSE 2 * Pow2(k - 1)

\* head_dim ** 0.5 for a head_dim that is a square.
Sqrt(h) == CHOOSE r \in 0..h : r * r = h

\* a + b for rationals, over the least common denominator.
AddRat(a, b) ==
    LET g == Gcd(a[3], b[3])
        l == (a[3] \div g) * b[3]
    IN Rat(a[2] * (l \div a[3]) + b[2] * (l \div b[3]), l)

\* a < b for rationals.
LessRat(a, b) == a[2] * b[3] < b[2] * a[3]

RECURSIVE SumRat(_)
SumRat(s) == IF s = <<>> THEN Rat(0, 1) ELSE AddRat(s[1], SumRat(Tail(s)))

RECURSIVE SumInt(_)
SumInt(s) == IF s = <<>> THEN 0 ELSE s[1] + SumInt(Tail(s))

\* torch.softmax(scores / head_dim**0.5, dim=axis) for scores that are
\* integers (times ln 2) or -inf: exp(-inf) = 0, and a line that is all
\* -inf gives nan.
SoftmaxAlong(scores, head_dim, axis) ==
    LET len == scores.shape[axis]
    IN Tensor(scores.shape,
              [p \in 1..Numel(scores) |->
                  LET idx == Unravel(p - 1, scores.shape)
                      line == SubSeq([l \in 1..len |->
                                         At(scores, [idx EXCEPT ![axis] = l - 1])], 1, len)
                      finite == {l \in 1..len : ~IsNegInf(line[l])}
                      scaled == [l \in finite |-> line[l][2] \div Sqrt(head_dim)]
                      low == CHOOSE e \in {scaled[l] : l \in finite} :
                                 \A l \in finite : e <= scaled[l]
                      exps == SubSeq([l \in 1..len |->
                                         IF l \in finite THEN Pow2(scaled[l] - low) ELSE 0],
                                     1, len)
                  IN IF finite = {} THEN NaN
                     ELSE Rat(exps[idx[axis] + 1], SumInt(exps))])

\* A variant that is not the source's, softmax with dim=-2, which C2 must
\* tell from Softmax.
SoftmaxOverRows(scores, head_dim) == SoftmaxAlong(scores, head_dim, Len(scores.shape) - 1)

\* line 82: torch.softmax(attn_scores / keys.shape[-1]**0.5, dim=-1)
Softmax(scores, head_dim) == SoftmaxAlong(scores, head_dim, Len(scores.shape))

\* line 74 for one head of one batch element whose query at position i is
\* q[i] in every feature and whose key at position j is k[j] in every
\* feature: queries @ keys.transpose(2, 3) is head_dim * q[i] * k[j].
NumScores(q, k, head_dim) ==
    LET n == Len(q)
    IN Tensor(<<1, 1, n, n>>,
              [p \in 1..(n * n) |->
                  IntV(head_dim * q[1 + ((p - 1) \div n)] * k[1 + ((p - 1) % n)])])

InitSoftmax ==
    /\ \E n \in 1..MaxSoftN, root \in 1..MaxRoot :
          \E ctx \in n..MaxSoftN, q \in [1..n -> 0..MaxQ], k \in [1..n -> KeyVals] :
              fn = [op |-> "sm77", context_length |-> ctx, num_tokens |-> n,
                    head_dim |-> root * root, mask |-> Triu(ctx, 1),
                    scores |-> NumScores(q, k, root * root),
                    masked |-> Null, weights |-> Null]
    /\ ctor = Null /\ mod = Null /\ rng = Null /\ call = Null /\ pair = Null /\ gen = Null
    /\ heap = Null

\* lines 77 and 80
SoftmaxMask ==
    /\ fn.op = "sm77"
    /\ fn' = [fn EXCEPT !.masked = MaskedFill(fn.scores, MaskBool(fn.mask, fn.num_tokens)),
                        !.op = "sm82"]

\* line 82
SoftmaxWeights ==
    /\ fn.op = "sm82"
    /\ fn' = [fn EXCEPT !.weights = Softmax(fn.masked, fn.head_dim), !.op = "weights"]

NextSoftmax ==
    /\ (SoftmaxMask \/ SoftmaxWeights)
    /\ UNCHANGED <<ctor, mod, rng, call, pair, gen, heap>>

SpecSoftmax == InitSoftmax /\ [][NextSoftmax]_vars

----------------------------------------------------------------------------
(* LayerNorm.forward on numbers (lines 95-106), in exact rationals.  The   *)
(* square root is kept as it is: an element of norm_x is c / sqrt(v) with  *)
(* c and v rational.                                                       *)

MaxWidth == 3      \* emb_dim of the normalized rows
MaxVal == 2        \* input elements are 0..MaxVal

\* self.eps = 1e-5
EpsDen == 100000
Eps == Rat(1, EpsDen)

NegRat(a) == <<"rat", 0 - a[2], a[3]>>
SubRat(a, b) == AddRat(a, NegRat(b))

\* a * b, cancelling across before multiplying.
MulRat(a, b) ==
    LET g1 == Gcd(a[2], b[3])
        g2 == Gcd(b[2], a[3])
    IN IF a[2] = 0 \/ b[2] = 0 THEN Rat(0, 1)
       ELSE Rat((a[2] \div g1) * (b[2] \div g2), (a[3] \div g2) * (b[3] \div g1))

\* a / b for b > 0.
DivRat(a, b) == MulRat(a, <<"rat", b[3], b[2]>>)

\* x.mean(dim=-1) of one row of integers.
MeanRow(row) == Rat(SumInt(row), Len(row))

\* The deviations x - mean of one row.
Deviations(row) ==
    SubSeq([f \in 1..Len(row) |-> SubRat(Rat(row[f], 1), MeanRow(row))], 1, Len(row))

\* x.var(dim=-1, unbiased=True): the squared deviations over d - 1 (nan for
\* d = 1, here 0).
\* This variant is not the source's; C10 must tell it from VarRow.
VarRowUnbiased(row) ==
    LET dev == Deviations(row)
        sq == SubSeq([f \in 1..Len(row) |-> MulRat(dev[f], dev[f])], 1, Len(row))
    IN IF Len(row) = 1 THEN Rat(0, 1) ELSE DivRat(SumRat(sq), Rat(Len(row) - 1, 1))

\* line 104: x.var(dim=-1, keepdim=True, unbiased=False), the squared
\* deviations over d.
VarRow(row) ==
    LET dev == Deviations(row)
        sq == SubSeq([f \in 1..Len(row) |-> MulRat(dev[f], dev[f])], 1, Len(row))
    IN DivRat(SumRat(sq), Rat(Len(row), 1))

\* Row t (from 0) of a [1, n, d] tensor of integers, as integers.
IntRow(x, t) ==
    LET d == x.shape[3]
    IN SubSeq([f \in 1..d |-> x.data[t * d + f][2]], 1, d)

\* line 105: (x - mean) / torch.sqrt(var + self.eps); mean and var are the
\* per-row values kept by keepdim=True.
NormX(x, mean, var) ==
    LET d == x.shape[3]
    IN Tensor(x.shape,
              [p \in 1..Numel(x) |->
                  LET t == (p - 1) \div d
                  IN <<"over_sqrt", SubRat(Rat(x.data[p][2], 1), mean[t + 1]),
                       AddRat(var[t + 1], Eps)>>])

\* line 106: self.scale * norm_x + self.shift with the parameters as
\* __init__ leaves them, ones and zeros (lines 99-100).
ScaleShift(norm_x) == norm_x

InitNorm ==
    /\ \E n \in 1..2, d \in 1..MaxWidth :
          \E vals \in [1..(n * d) -> 0..MaxVal] :
              fn = [op |-> "ln103",
                    x |-> Tensor(<<1, n, d>>, [p \in 1..(n * d) |-> IntV(vals[p])]),
                    mean |-> <<>>, var |-> <<>>, norm_x |-> Null, out |-> Null]
    /\ ctor = Null /\ mod = Null /\ rng = Null /\ call = Null /\ pair = Null /\ gen = Null
    /\ heap = Null

Rows(x) == x.shape[2]

\* line 103
Norm103 ==
    /\ fn.op = "ln103"
    /\ fn' = [fn EXCEPT !.mean = SubSeq([t \in 1..Rows(fn.x) |-> MeanRow(IntRow(fn.x, t - 1))],
                                        1, Rows(fn.x)),
                        !.op = "ln104"]

\* line 104
Norm104 ==
    /\ fn.op = "ln104"
    /\ fn' = [fn EXCEPT !.var = SubSeq([t \in 1..Rows(fn.x) |-> VarRow(IntRow(fn.x, t - 1))],
                                       1, Rows(fn.x)),
                        !.op = "ln105"]

\* line 105
Norm105 ==
    /\ fn.op = "ln105"
    /\ fn' = [fn EXCEPT !.norm_x = NormX(fn.x, fn.mean, fn.var), !.op = "ln106"]

\* line 106
Norm106 ==
    /\ fn.op = "ln106"
    /\ fn' = [fn EXCEPT !.out = ScaleShift(fn.norm_x), !.op = "returned"]

NextNorm ==
    /\ (Norm103 \/ Norm104 \/ Norm105 \/ Norm106)
    /\ UNCHANGED <<ctor, mod, rng, call, pair, gen, heap>>

SpecNorm == InitNorm /\ [][NextNorm]_vars

----------------------------------------------------------------------------
(* generate_text_simple (5.1.2, lines 167-192), statement by statement.    *)
(* idx is a batch of token rows of one length.                             *)

MaxLen0 == 2       \* tokens in idx at the call
MaxNew == 3        \* max_new_tokens
MaxCS == 3         \* context_size
NumModels == 2     \* the models tried

\* The vocabulary: token ids 0..VocabSize-1.
VocabSize == 2

\* row[start:] as Python slices: a negative start counts from the end, and
\* a start out of range is clamped.
PySliceFrom(row, start) ==
    LET lo == IF start < 0 THEN Max(Len(row) + start, 0) ELSE Min(start, Len(row))
    IN SubSeq(row, lo + 1, Len(row))

\* row[:stop] for stop >= 0.
PySliceTo(row, stop) == SubSeq(row, 1, Min(stop, Len(row)))

\* A variant that is not the source's, idx[:, :context_size], which C9 must
\* tell from IdxCond.
IdxCondFirstTokens(idx, context_size) ==
    SubSeq([r \in 1..Len(idx) |-> PySliceTo(idx[r], context_size)], 1, Len(idx))

\* line 173: idx_cond = idx[:, -context_size:]
IdxCond(idx, context_size) ==
    SubSeq([r \in 1..Len(idx) |-> PySliceFrom(idx[r], 0 - context_size)], 1, Len(idx))

\* model(idx_cond) for model k: a logit (times ln 2) for every position and
\* vocabulary entry, computed from the tokens up to that position.
LogitOf(k, prefix, v) == (k * Len(prefix) + (v + 1) * SumInt(prefix) + v * k) % 3

RowLogits(k, row) ==
    SubSeq([t \in 1..Len(row) |->
               SubSeq([v \in 1..VocabSize |-> LogitOf(k, SubSeq(row, 1, t), v - 1)],
                      1, VocabSize)], 1, Len(row))

ModelLogits(k, idx_cond) ==
    SubSeq([r \in 1..Len(idx_cond) |-> RowLogits(k, idx_cond[r])], 1, Len(idx_cond))

\* line 181: logits[:, -1, :]
LastStep(logits) ==
    SubSeq([r \in 1..Len(logits) |-> logits[r][Len(logits[r])]], 1, Len(logits))

\* line 184: torch.softmax(logits, dim=-1)
RowSoftmax(row) ==
    LET exps == SubSeq([v \in 1..Len(row) |-> Pow2(row[v])], 1, Len(row))
    IN SubSeq([v \in 1..Len(row) |-> Rat(exps[v], SumInt(exps))], 1, Len(row))

SoftmaxLogits(logits) ==
    SubSeq([r \in 1..Len(logits) |-> RowSoftmax(logits[r])], 1, Len(logits))

\* line 187: torch.argmax(probas, dim=-1, keepdim=True): the index of the
\* first maximal value, kept as a row of one token.
RowArgMax(row) ==
    (CHOOSE v \in 1..Len(row) :
        /\ \A u \in 1..Len(row) : ~LessRat(row[v], row[u])
        /\ \A u \in 1..(v - 1) : LessRat(row[u], row[v])) - 1

ArgMax(probas) ==
    SubSeq([r \in 1..Len(probas) |-> <<RowArgMax(probas[r])>>], 1, Len(probas))

\* line 190: torch.cat((idx, idx_next), dim=1)
Cat(idx, idx_next) ==
    SubSeq([r \in 1..Len(idx) |-> idx[r] \o idx_next[r]], 1, Len(idx))

InitGen ==
    /\ \E b \in 1..2, n \in 1..MaxLen0, k \in 1..NumModels,
          max_new_tokens \in 0..MaxNew, context_size \in 1..MaxCS :
          \E idx \in [1..b -> [1..n -> 0..(VocabSize - 1)]] :
              gen = [pc |-> "g169", model |-> k, idx0 |-> idx, idx |-> idx,
                     max_new_tokens |-> max_new_tokens, context_size |-> context_size,
                     i |-> 0, idx_cond |-> <<>>, logits |-> <<>>, probas |-> <<>>,
                     idx_next |-> <<>>, calls |-> <<>>, out |-> <<>>]
    /\ ctor = Null /\ mod = Null /\ rng = Null /\ call = Null /\ pair = Null /\ fn = Null
    /\ heap = Null

\* line 169: for _ in range(max_new_tokens), and line 192 when it is exhausted
Gen169 ==
    /\ gen.pc = "g169"
    /\ gen' = IF gen.i < gen.max_new_tokens
              THEN [gen EXCEPT !.i = gen.i + 1, !.pc = "g173"]
              ELSE [gen EXCEPT !.out = gen.idx, !.pc = "returned"]

\* line 173
Gen173 ==
    /\ gen.pc = "g173"
    /\ gen' = [gen EXCEPT !.idx_cond = IdxCond(gen.idx, gen.context_size), !.pc = "g177"]

\* lines 176-177: logits = model(idx_cond)
Gen177 ==
    /\ gen.pc = "g177"
    /\ gen' = [gen EXCEPT !.logits = ModelLogits(gen.model, gen.idx_cond),
                          !.calls = Append(gen.calls, gen.idx_cond),
                          !.pc = "g181"]

\* line 181
Gen181 ==
    /\ gen.pc = "g181"
    /\ gen' = [gen EXCEPT !.logits = LastStep(gen.logits), !.pc = "g184"]

\* line 184
Gen184 ==
    /\ gen.pc = "g184"
    /\ gen' = [gen EXCEPT !.probas = SoftmaxLogits(gen.logits), !.pc = "g187"]

\* line 187
Gen187 ==
    /\ gen.pc = "g187"
    /\ gen' = [gen EXCEPT !.idx_next = ArgMax(gen.probas), !.pc = "g190"]

\* line 190
Gen190 ==
    /\ gen.pc = "g190"
    /\ gen' = [gen EXCEPT !.idx = Cat(gen.idx, gen.idx_next), !.pc = "g169"]

NextGen ==
    /\ (Gen169 \/ Gen173 \/ Gen177 \/ Gen181 \/ Gen184 \/ Gen187 \/ Gen190)
    /\ UNCHANGED <<ctor, mod, rng, call, pair, fn, heap>>

SpecGen == InitGen /\ [][NextGen]_vars

----------------------------------------------------------------------------
(* MultiHeadAttention.forward between the projections and the output       *)
(* projection (lines 62-89), statement by statement, run side by side on   *)
(* two sets of projected queries, keys and values that differ in the       *)
(* features of one head.                                                    *)

\* A projected tensor [1, n, d_out]: feature f of position t is a value of
\* its own, and another one (version 2) where it was changed.
Projected(name, n, d_out, changed) ==
    Tensor(<<1, n, d_out>>,
           [p \in 1..(n * d_out) |->
               LET f == (p - 1) % d_out
               IN <<"proj", name, (p - 1) \div d_out, f, IF f \in changed THEN 2 ELSE 1>>])

\* The features of head h: [h * head_dim, (h + 1) * head_dim).
HeadFeatures(m, h) == (h * m.head_dim)..((h + 1) * m.head_dim - 1)

\* The frame of forward after line 60.
HeadsFrame(q, k, v) ==
    [pc |-> "h64", status |-> "running", q |-> q, k |-> k, v |-> v,
     queries |-> Null, keys |-> Null, values |-> Null,
     attn_scores |-> Null, attn_weights |-> Null, context_vec |-> Null]

\* One statement (or group of statements) of lines 62-89: the frame u and the
\* generator state r after it.
HeadsStep(m, u, r) ==
    LET b == u.q.shape[1]
        num_tokens == u.q.shape[2]
    IN CASE u.pc = "h64" ->                                      \* lines 64-71
              [u |-> [u EXCEPT
                        !.queries = SplitHeads(u.q, b, num_tokens, m.num_heads, m.head_dim),
                        !.keys = SplitHeads(u.k, b, num_tokens, m.num_heads, m.head_dim),
                        !.values = SplitHeads(u.v, b, num_tokens, m.num_heads, m.head_dim),
                        !.pc = "h74"],
               rng |-> r]
         [] u.pc = "h74" ->                                      \* line 74
              [u |-> [u EXCEPT !.attn_scores = MatMul(u.queries, Transpose(u.keys, 2, 3)),
                               !.pc = "h77"],
               rng |-> r]
         [] u.pc = "h77" ->                                      \* lines 77-80
              [u |-> IF ~Broadcastable(MaskBool(m.mask, num_tokens), u.attn_scores)
                     THEN [u EXCEPT !.status = "raised", !.pc = "done"]
                     ELSE [u EXCEPT !.attn_scores =
                                       MaskedFill(u.attn_scores, MaskBool(m.mask, num_tokens)),
                                    !.pc = "h82"],
               rng |-> r]
         [] u.pc = "h82" ->                                      \* line 82
              [u |-> [u EXCEPT !.attn_weights = SoftmaxTerms(u.attn_scores, u.keys.shape[4]),
                               !.pc = "h83"],
               rng |-> r]
         [] u.pc = "h83" ->                                      \* line 83
              [u |-> [u EXCEPT !.attn_weights = Dropout(m, u.attn_weights, r).t,
                               !.pc = "h86"],
               rng |-> Dropout(m, u.attn_weights, r).rng]
         [] u.pc = "h86" ->                                      \* lines 86-89
              [u |-> [u EXCEPT !.context_vec =
                                  MergeHeads(MatMul(u.attn_weights, u.values),
                                             b, num_tokens, m.d_out),
                               !.status = "ok", !.pc = "done"],
               rng |-> r]

InitHeads ==
    /\ \E m \in {m \in Modules : m.kind = "MultiHeadAttention"},
          r \in RngStates, n \in 1..MaxCtx :
          \E h \in 0..(m.num_heads - 1), which \in (SUBSET {"q", "k", "v"}) \ {{}} :
              LET Second(name) ==
                      Projected(name, n, m.d_out,
                                IF name \in which THEN HeadFeatures(m, h) ELSE {})
              IN pair = [op |-> "heads", m |-> m, n |-> n, changed |-> h, r |-> <<r, r>>,
                         u |-> <<HeadsFrame(Projected("q", n, m.d_out, {}),
                                            Projected("k", n, m.d_out, {}),
                                            Projected("v", n, m.d_out, {})),
                                 HeadsFrame(Second("q"), Second("k"), Second("v"))>>]
    /\ ctor = Null /\ mod = Null /\ rng = Null /\ call = Null /\ fn = Null /\ gen = Null
    /\ heap = Null

\* nn.Module.eval() before the two runs
HeadsEval ==
    /\ pair.u[1].pc = "h64" /\ pair.m.training
    /\ pair' = [pair EXCEPT !.m.training = FALSE]

\* The next statement of both runs.
HeadsNext ==
    /\ pair.u[1].pc # "done"
    /\ \E s1 \in {HeadsStep(pair.m, pair.u[1], pair.r[1])},
          s2 \in {HeadsStep(pair.m, pair.u[2], pair.r[2])} :
          pair' = [pair EXCEPT !.u = <<s1.u, s2.u>>, !.r = <<s1.rng, s2.rng>>]

NextHeads ==
    /\ (HeadsEval \/ HeadsNext)
    /\ UNCHANGED <<ctor, mod, rng, call, fn, gen, heap>>

SpecHeads == InitHeads /\ [][NextHeads]_vars

----------------------------------------------------------------------------
(* The storages behind the tensors (SpecMem).  A tensor is a reference: a  *)
(* shape and strides over a storage.  A statement of forward either        *)
(* allocates a storage for its result or returns a reference to a storage  *)
(* that exists; masked_fill_ (line 80) writes into the storage of its      *)
(* target.  The heap holds the buffer and the parameters of the module,    *)
(* the caller's input and what the call in progress allocated.             *)

MaxCalls == 3      \* forward calls on one instance

\* A storage: its elements, the call that allocated it (0: before any call)
\* and the last call that wrote into it in place (0: none).
Storage(data, born) == [data |-> data, born |-> born, written |-> 0]

\* The elements a statement computes, named after the tensor it assigns.
Elems(name, size) == SubSeq([p \in 1..size |-> <<name, p>>], 1, size)

\* line 52: the elements of torch.triu(torch.ones(ctx, ctx), diagonal=1),
\* a float tensor, in row-major order.
MaskData(context_length) ==
    LET mask == Triu(context_length, 1)
        size == context_length * context_length
    IN SubSeq([p \in 1..size |->
                  IntV(mask[((p - 1) \div context_length) + 1]
                           [((p - 1) % context_length) + 1])], 1, size)

\* The layers with parameters: lines 46-49 for MultiHeadAttention, and
\* lines 16-18 more for a TransformerBlock.
ParamNames(m) ==
    IF m.kind = "MultiHeadAttention"
    THEN <<"W_query", "W_key", "W_value", "out_proj">>
    ELSE <<"W_query", "W_key", "W_value", "out_proj", "norm1", "norm2", "ff1", "ff2">>

\* The storages construction leaves: the mask buffer first, then the
\* parameters of each layer.
NumPersistent(m) == 1 + Len(ParamNames(m))

ModuleHeap(m) ==
    <<Storage(MaskData(m.context_length), 0)>>
        \o SubSeq([k \in 1..Len(ParamNames(m)) |->
                      Storage(<<m.params[ParamNames(m)[k]]>>, 0)],
                  1, Len(ParamNames(m)))

\* self.mask: the whole [ctx, ctx] buffer.
MaskRef(m) ==
    [shape |-> <<m.context_length, m.context_length>>,
     stride |-> RowMajor(<<m.context_length, m.context_length>>), sid |-> 1]

\* The reference to the k-th storage allocated next, a contiguous tensor.
Fresh(h, shape, k) ==
    [shape |-> shape, stride |-> RowMajor(shape), sid |-> Len(h) + k]

Alloc(h, data, now) == Append(h, Storage(data, now))

\* r[idx]
RefAt(h, r, idx) == h[r.sid].data[1 + Dot2(idx, r.stride)]

\* Tensor.is_contiguous(): the strides are the row-major ones, up to the
\* dimensions of size 1.
RefIsContiguous(r) ==
    \A k \in 1..Len(r.shape) : r.shape[k] = 1 \/ r.stride[k] = RowMajor(r.shape)[k]

\* r.view(shape) and r.transpose(d0, d1): the same storage.
RefView(r, shape) == [r EXCEPT !.shape = shape, !.stride = RowMajor(shape)]

RefTranspose(r, d0, d1) ==
    [r EXCEPT !.shape = Swap(r.shape, d0 + 1, d1 + 1),
              !.stride = Swap(r.stride, d0 + 1, d1 + 1)]

\* r[:n, :n] of a 2-D tensor: the same storage and strides.
RefSlice(r, n) ==
    [r EXCEPT !.shape = <<Min(n, r.shape[1]), Min(n, r.shape[2])>>]

\* Tensor.bool() of a float tensor: a new tensor, True where the element is
\* not zero.  (The buffer of line 52 is float32; bool() returns the tensor
\* itself only when it is a bool tensor already.)
BoolData(h, r) ==
    SubSeq([p \in 1..Prod(r.shape) |-> ~IsZero(RefAt(h, r, Unravel(p - 1, r.shape)))],
           1, Prod(r.shape))

\* Tensor.masked_fill_(mask, -inf): the storage of the target is written
\* where the mask, broadcast over the last two dimensions, is True.
InPlaceFill(h, target, mask, now) ==
    LET rk == Len(target.shape)
        hit == {1 + Dot2(idx, target.stride) :
                  idx \in {i \in {Unravel(p - 1, target.shape) :
                                      p \in 1..Prod(target.shape)} :
                              RefAt(h, mask,
                                    <<IF mask.shape[1] = 1 THEN 0 ELSE i[rk - 1],
                                      IF mask.shape[2] = 1 THEN 0 ELSE i[rk]>>)}}
        s == h[target.sid]
    IN [h EXCEPT ![target.sid] =
           [data |-> SubSeq([p \in 1..Len(s.data) |->
                                IF p \in hit THEN NegInf ELSE s.data[p]],
                            1, Len(s.data)),
            born |-> s.born, written |-> now]]

\* line 80: attn_scores.masked_fill_(mask_bool, -torch.inf)
\* First a variant that is not the source's, the fill applied to the
\* buffer itself, self.mask[:n, :n].masked_fill_(mask_bool, -torch.inf),
\* which C12 must tell from Fill80.
Fill80IntoBuffer(h, m, f) ==
    InPlaceFill(h, RefSlice(MaskRef(m), f.ax.shape[2]), f.mask_bool, f.now)

Fill80(h, m, f) == InPlaceFill(h, f.attn_scores, f.mask_bool, f.now)

\* nn.Dropout: in training with p > 0 a new tensor, otherwise the input
\* tensor itself is returned.
DropoutRef(m, h, r, name, now) ==
    IF DropoutActive(m)
    THEN [h |-> Alloc(h, Elems(name, Prod(r.shape)), now), r |-> Fresh(h, r.shape, 1)]
    ELSE [h |-> h, r |-> r]

\* A local that is not assigned yet.
NoRef == [shape |-> <<>>, stride |-> <<>>, sid |-> 0]

\* The frame of a call: the caller's input and the locals of
\* TransformerBlock.forward (x, shortcut) and of
\* MultiHeadAttention.forward (ax is its parameter x).
NewFrame(kind, now, input) ==
    [kind |-> kind, now |-> now, input |-> input,
     pc |-> IF kind = "TransformerBlock" THEN "tb23" ELSE "h58",
     x |-> IF kind = "TransformerBlock" THEN input ELSE NoRef,
     shortcut |-> NoRef,
     ax |-> IF kind = "TransformerBlock" THEN NoRef ELSE input,
     queries |-> NoRef, keys |-> NoRef, values |-> NoRef, attn_scores |-> NoRef,
     mask_bool |-> NoRef, attn_weights |-> NoRef, context_vec |-> NoRef,
     out |-> NoRef]

AttPcs == {"h58", "h64", "h69", "h74", "h77", "h80", "h82", "h83", "h86", "h89",
           "h90", "h92"}

\* MultiHeadAttention.forward on the heap, one statement (or one group of
\* three like statements) at a time.
AttMemStep(m, h, f) ==
    LET b == f.ax.shape[1]
        n == f.ax.shape[2]
        proj == <<b, n, m.d_out>>
        split == <<b, n, m.num_heads, m.head_dim>>
    IN CASE f.pc = "h58" ->
              \* lines 58-60: nn.Linear computes a new tensor
              [h |-> Alloc(Alloc(Alloc(h, Elems("queries", Prod(proj)), f.now),
                                 Elems("keys", Prod(proj)), f.now),
                           Elems("values", Prod(proj)), f.now),
               f |-> [f EXCEPT !.queries = Fresh(h, proj, 1), !.keys = Fresh(h, proj, 2),
                               !.values = Fresh(h, proj, 3), !.pc = "h64"]]
         [] f.pc = "h64" ->
              \* lines 64-66
              [h |-> h,
               f |-> [f EXCEPT !.queries = RefView(@, split), !.keys = RefView(@, split),
                               !.values = RefView(@, split), !.pc = "h69"]]
         [] f.pc = "h69" ->
              \* lines 69-71
              [h |-> h,
               f |-> [f EXCEPT !.queries = RefTranspose(@, 1, 2),
                               !.keys = RefTranspose(@, 1, 2),
                               !.values = RefTranspose(@, 1, 2), !.pc = "h74"]]
         [] f.pc = "h74" ->
              \* line 74: the matrix product is a new tensor
              [h |-> Alloc(h, Elems("attn_scores", b * m.num_heads * n * n), f.now),
               f |-> [f EXCEPT !.attn_scores = Fresh(h, <<b, m.num_heads, n, n>>, 1),
                               !.pc = "h77"]]
         [] f.pc = "h77" ->
              \* line 77: self.mask.bool()[:num_tokens, :num_tokens]
              [h |-> Alloc(h, BoolData(h, MaskRef(m)), f.now),
               f |-> [f EXCEPT !.mask_bool = RefSlice(Fresh(h, MaskRef(m).shape, 1), n),
                               !.pc = "h80"]]
         [] f.pc = "h80" ->
              [h |-> Fill80(h, m, f), f |-> [f EXCEPT !.pc = "h82"]]
         [] f.pc = "h82" ->
              \* line 82: the quotient is a new tensor, and so is its softmax
              [h |-> Alloc(Alloc(h, Elems("scaled", Prod(f.attn_scores.shape)), f.now),
                           Elems("attn_weights", Prod(f.attn_scores.shape)), f.now),
               f |-> [f EXCEPT !.attn_weights = Fresh(h, f.attn_scores.shape, 2),
                               !.pc = "h83"]]
         [] f.pc = "h83" ->
              \* line 83
              LET d == DropoutRef(m, h, f.attn_weights, "attn_weights", f.now)
              IN [h |-> d.h, f |-> [f EXCEPT !.attn_weights = d.r, !.pc = "h86"]]
         [] f.pc = "h86" ->
              \* line 86: (attn_weights @ values).transpose(1, 2)
              [h |-> Alloc(h, Elems("context_vec", Prod(split)), f.now),
               f |-> [f EXCEPT !.context_vec =
                                  RefTranspose(Fresh(h, <<b, m.num_heads, n, m.head_dim>>, 1),
                                               1, 2),
                               !.pc = "h89"]]
         [] f.pc = "h89" ->
              \* line 89: contiguous() returns the tensor itself when it is
              \* contiguous, a copy otherwise; view keeps the storage
              IF RefIsContiguous(f.context_vec)
              THEN [h |-> h,
                    f |-> [f EXCEPT !.context_vec = RefView(@, proj), !.pc = "h90"]]
              ELSE [h |-> Alloc(h, Elems("context_vec", Prod(proj)), f.now),
                    f |-> [f EXCEPT !.context_vec = Fresh(h, proj, 1), !.pc = "h90"]]
         [] f.pc = "h90" ->
              \* line 90
              [h |-> Alloc(h, Elems("out_proj", Prod(proj)), f.now),
               f |-> [f EXCEPT !.context_vec = Fresh(h, proj, 1), !.pc = "h92"]]
         [] OTHER ->
              \* line 92; in a TransformerBlock the value is assigned at line 25
              IF f.kind = "TransformerBlock"
              THEN [h |-> h, f |-> [f EXCEPT !.x = f.context_vec, !.pc = "tb26"]]
              ELSE [h |-> h, f |-> [f EXCEPT !.out = f.context_vec, !.pc = "done"]]

\* TransformerBlock.forward on the heap, lines 23-36.  LayerNorm (line
\* 106), FeedForward (line 131) and x + shortcut compute new tensors.
BlockMemStep(m, h, f) ==
    CASE f.pc = "tb23" -> [h |-> h, f |-> [f EXCEPT !.shortcut = f.x, !.pc = "tb24"]]
      [] f.pc = "tb24" ->
           [h |-> Alloc(h, Elems("norm1", Prod(f.x.shape)), f.now),
            f |-> [f EXCEPT !.x = Fresh(h, f.x.shape, 1), !.pc = "tb25"]]
      [] f.pc = "tb25" -> [h |-> h, f |-> [f EXCEPT !.ax = f.x, !.pc = "h58"]]
      [] f.pc \in {"tb26", "tb33"} ->
           LET d == DropoutRef(m, h, f.x, "drop_shortcut", f.now)
           IN [h |-> d.h,
               f |-> [f EXCEPT !.x = d.r, !.pc = IF f.pc = "tb26" THEN "tb27" ELSE "tb34"]]
      [] f.pc \in {"tb27", "tb34"} ->
           [h |-> Alloc(h, Elems("add", Prod(f.x.shape)), f.now),
            f |-> [f EXCEPT !.x = Fresh(h, f.x.shape, 1),
                            !.pc = IF f.pc = "tb27" THEN "tb30" ELSE "tb36"]]
      [] f.pc = "tb30" -> [h |-> h, f |-> [f EXCEPT !.shortcut = f.x, !.pc = "tb31"]]
      [] f.pc = "tb31" ->
           [h |-> Alloc(h, Elems("norm2", Prod(f.x.shape)), f.now),
            f |-> [f EXCEPT !.x = Fresh(h, f.x.shape, 1), !.pc = "tb32"]]
      [] f.pc = "tb32" ->
           [h |-> Alloc(h, Elems("ff", Prod(f.x.shape)), f.now),
            f |-> [f EXCEPT !.x = Fresh(h, f.x.shape, 1), !.pc = "tb33"]]
      [] OTHER -> [h |-> h, f |-> [f EXCEPT !.out = f.x, !.pc = "done"]]

\* After construction: the heap of the module, no call yet.
InitMem ==
    /\ mod \in Modules
    /\ heap = ModuleHeap(mod)
    /\ call = [NewFrame(mod.kind, 0, NoRef) EXCEPT !.pc = "done"]
    /\ ctor = Null /\ rng = Null /\ pair = Null /\ fn = Null /\ gen = Null

\* nn.Module.eval()
MemEval ==
    /\ call.pc = "done" /\ mod.training
    /\ mod' = [mod EXCEPT !.training = FALSE]
    /\ UNCHANGED <<call, heap>>

\* The caller makes an input of up to context_length tokens (line 146) and
\* calls the module (line 148); what the previous call allocated is freed.
MemCall ==
    /\ call.pc = "done" /\ call.now < MaxCalls
    /\ \E b \in 1..MaxBatch, n \in 1..mod.context_length :
          LET h == SubSeq(heap, 1, NumPersistent(mod))
              shape == <<b, n, mod.d_in>>
          IN /\ heap' = Alloc(h, Elems("x", Prod(shape)), 0)
             /\ call' = NewFrame(mod.kind, call.now + 1, Fresh(h, shape, 1))
    /\ UNCHANGED mod

\* The caller calls the module again on the same input tensor.
MemCallSame ==
    /\ call.pc = "done" /\ 1 <= call.now /\ call.now < MaxCalls
    /\ heap' = SubSeq(heap, 1, NumPersistent(mod) + 1)
    /\ call' = NewFrame(mod.kind, call.now + 1, call.input)
    /\ UNCHANGED mod

\* The next statement of MultiHeadAttention.forward.
MemStepAttention ==
    /\ call.pc \in AttPcs
    /\ \E s \in {AttMemStep(mod, heap, call)} : heap' = s.h /\ call' = s.f
    /\ UNCHANGED mod

\* The next statement of TransformerBlock.forward.
MemStepBlock ==
    /\ call.pc \notin AttPcs /\ call.pc # "done"
    /\ \E s \in {BlockMemStep(mod, heap, call)} : heap' = s.h /\ call' = s.f
    /\ UNCHANGED mod

NextMem ==
    /\ (MemEval \/ MemCall \/ MemCallSame \/ MemStepAttention \/ MemStepBlock)
    /\ UNCHANGED <<ctor, rng, pair, fn, gen>>

SpecMem == InitMem /\ [][NextMem]_vars

----------------------------------------------------------------------------
(* Claims about construction (checked under SpecCtor).                     *)

DimsAllowed(a) == a.d_in >= 0 /\ a.d_out >= 0 /\ a.context_length >= 0

\* C5: when d_out is not evenly divisible by num_heads, __init__ raises at
\* its assert, before any projection, dropout or mask exists, and the module
\* is never built; when it is divisible (and the sizes can be allocated)
\* construction succeeds with head_dim * num_heads = d_out.
C5_IndivisibleRaisesFirst ==
    LET a == ctor.args
        divisible == a.num_heads # 0 /\ PyMod(a.d_out, a.num_heads) = 0
        indivisible == a.num_heads # 0 /\ PyMod(a.d_out, a.num_heads) # 0
    IN /\ (indivisible /\ ctor.pc \notin {"tb8", "mha41"}) =>
              /\ ctor.status = "raised" /\ ctor.error = "AssertionError"
              /\ ctor.created = <<>> /\ ctor.mask = <<>>
       /\ indivisible => ctor.status # "built"
       /\ (divisible /\ DimsAllowed(a) /\ ctor.pc = "end") =>
              /\ ctor.status = "built"
              /\ ctor.head_dim * a.num_heads = a.d_out
              /\ (a.d_out = EmbDim124M /\ a.num_heads = NHeads124M =>
                      ctor.head_dim = EmbDim124M \div NHeads124M)

\* C5 witness: d_out = 768 with num_heads = 11 has raised the assertion.
C5_Witness ==
    /\ ctor.args.d_out = EmbDim124M /\ ctor.args.num_heads = NHeads124M - 1
    /\ ctor.status = "raised" /\ ctor.error = "AssertionError"

\* C6: construction with any declared dimension zero or negative ends in an
\* error (of any kind) and no module is built.
C6_NonPositiveDimensionRaises ==
    LET a == ctor.args
    IN (ctor.pc = "end" /\ (a.d_in <= 0 \/ a.d_out <= 0 \/ a.context_length <= 0
                              \/ a.num_heads <= 0))
          => ctor.status = "raised"

----------------------------------------------------------------------------
(* Claims about splitting and merging heads (checked under SpecView).      *)

\* C4: split (view, transpose) followed by merge (transpose, contiguous,
\* view) gives back the original tensor, and feature k of a token is found
\* in head k div head_dim at offset k mod head_dim.
C4_SplitMergeRoundTrip ==
    /\ fn.op # "input" =>
          /\ fn.heads.shape = <<fn.b, fn.num_heads, fn.n, fn.head_dim>>
          /\ \A bi \in 0..(fn.b - 1), t \in 0..(fn.n - 1),
                k \in 0..(fn.num_heads * fn.head_dim - 1) :
                At(fn.heads, <<bi, k \div fn.head_dim, t, k % fn.head_dim>>)
                    = At(fn.x, <<bi, t, k>>)
    /\ fn.op = "merged" =>
          /\ fn.merged = fn.x
          /\ \A bi \in 0..(fn.b - 1), t \in 0..(fn.n - 1),
                k \in 0..(fn.num_heads * fn.head_dim - 1) :
                At(fn.merged, <<bi, t, k>>) = At(fn.x, <<bi, t, k>>)

\* C4 witness: a tensor of several tokens and several heads of several
\* features has been split and merged.
C4_Witness ==
    /\ fn.op = "merged" /\ fn.n > 1 /\ fn.num_heads > 1 /\ fn.head_dim > 1 /\ fn.b > 1


----------------------------------------------------------------------------
(* Claims about the causal mask (checked under SpecMask).                  *)

\* The entries of one [n, n] matrix of the masked scores: matrix q (from 0)
\* of the leading dimensions, row i and column j (from 0).
MaskedEntry(t, q, i, j) ==
    LET n == t.shape[Len(t.shape)] IN t.data[q * n * n + i * n + j + 1]

\* C1: for 1 <= n <= context_length the mask applied is the top-left n-by-n
\* slice of the mask built at construction; after the fill, entry (i, j) is
\* negative infinity exactly when j > i and every other entry keeps its
\* score, so each matrix has n(n-1)/2 masked and n(n+1)/2 unchanged entries
\* (15 and 21 for n = 6).
C1_MaskIsStrictUpperTriangle ==
    (fn.op = "masked") =>
        LET n == fn.num_tokens
            mats == Numel(fn.masked) \div (n * n)
            cells == (0..(n - 1)) \X (0..(n - 1))
        IN /\ Len(fn.mask_bool) = n
           /\ \A i, j \in 1..n :
                  /\ Len(fn.mask_bool[i]) = n
                  /\ fn.mask_bool[i][j] = (fn.mask[i][j] # 0)
           /\ fn.masked.shape = fn.scores.shape
           /\ \A q \in 0..(mats - 1) :
                  /\ \A c \in cells :
                         /\ IsNegInf(MaskedEntry(fn.masked, q, c[1], c[2])) <=> c[2] > c[1]
                         /\ c[2] <= c[1] =>
                                MaskedEntry(fn.masked, q, c[1], c[2])
                                    = MaskedEntry(fn.scores, q, c[1], c[2])
                  /\ 2 * Cardinality({c \in cells :
                          IsNegInf(MaskedEntry(fn.masked, q, c[1], c[2]))}) = n * (n - 1)
                  /\ 2 * Cardinality({c \in cells :
                          MaskedEntry(fn.masked, q, c[1], c[2])
                              = MaskedEntry(fn.scores, q, c[1], c[2])}) = n * (n + 1)
                  /\ n = 6 =>
                         /\ Cardinality({c \in cells :
                                IsNegInf(MaskedEntry(fn.masked, q, c[1], c[2]))}) = 15
                         /\ Cardinality({c \in cells :
                                ~IsNegInf(MaskedEntry(fn.masked, q, c[1], c[2]))}) = 21

\* C1 witness: forward has masked the scores of 2 tokens with the slice of
\* a mask built for context_length = 6.
C1_Witness ==
    /\ fn.op = "masked" /\ Len(fn.scores.shape) = 4
    /\ fn.num_tokens = 2 /\ fn.context_length = 6
    /\ IsNegInf(MaskedEntry(fn.masked, 0, 0, 1))


----------------------------------------------------------------------------
(* Claims about the forward calls (checked under Spec).                    *)

\* C7: a call of MultiHeadAttention.forward with more tokens than
\* context_length (and the right last dimension) ends with an error raised
\* to the caller and never with an output.
C7_LongInputRaises ==
    (/\ call.kind = "MultiHeadAttention" /\ call.pc = "done"
     /\ call.input.shape[3] = mod.d_in
     /\ call.input.shape[2] > mod.context_length)
        => (call.status = "raised" /\ call.out = Null)

\* C7, where the code does what the claim says: with context_length >= 2
\* the longer input raises RuntimeError at the fill and nothing is returned.
C7_LongInputRaisesFromTwo ==
    (/\ call.kind = "MultiHeadAttention" /\ call.pc = "done"
     /\ call.input.shape[3] = mod.d_in
     /\ mod.context_length >= 2
     /\ call.input.shape[2] > mod.context_length)
        => (call.status = "raised" /\ call.error = "RuntimeError" /\ call.out = Null)

\* What nn.Dropout may leave of the value v in a call of the module m.  The
\* mode of a call that has returned may have been changed since by eval().
DropOf(m, v) ==
    LET dropped == {Zero, <<"scale", m.drop_rate, v>>}
    IN IF call.pc = "done"
       THEN (IF m.drop_rate > 0 THEN dropped \cup {v} ELSE {v})
       ELSE (IF DropoutActive(m) THEN dropped ELSE {v})

\* The statements of TransformerBlock.forward, in the order of the source.
BlockOps ==
    <<"shortcut", "norm1", "att", "dropout", "add",
      "shortcut", "norm2", "ff", "dropout", "add">>

BlockPcs == <<"tb23", "tb24", "tb25", "tb26", "tb27",
              "tb30", "tb31", "tb32", "tb33", "tb34", "tb36">>

\* The residual sum t: every element is add(what dropout left of sub, res).
IsResidual(m, t, sub, res) ==
    /\ t.shape = res.shape
    /\ \A p \in 1..Len(t.data) :
           /\ t.data[p][1] = "add"
           /\ t.data[p][2] \in DropOf(m, sub.data[p])
           /\ t.data[p][3] = res.data[p]

\* C8: TransformerBlock.forward saves x as the shortcut, normalizes, applies
\* the sub-layer, applies dropout and adds the shortcut last, first around
\* attention (norm1) and then around the feed-forward network (norm2); the
\* second shortcut is the first residual sum, not the input; the output has
\* the shape of the input.
C8_BlockOrder ==
    (call.kind = "TransformerBlock" /\ call.status # "raised") =>
        LET k == CHOOSE k \in 1..Len(BlockPcs) :
                     BlockPcs[k] = (IF call.pc = "done" THEN "tb36" ELSE call.pc)
            ran == IF call.pc = "done" THEN Len(BlockOps) ELSE k - 1
            x0 == call.input
            n1 == LayerNormApply(mod.params.norm1, x0)
            y == call.shortcut
            ffo == FeedForwardApply(mod.params,
                                    LayerNormApply(mod.params.norm2, y), mod.d_out)
        IN /\ call.ops = SubSeq(BlockOps, 1, ran)
           /\ call.x.shape = x0.shape
           /\ ran \in 1..5 => call.shortcut = x0
           /\ ran = 2 => call.x = n1
           /\ ran >= 3 => call.att.status = "ok"
           /\ ran = 3 => call.x = call.att.out
           /\ ran = 4 => \A p \in 1..Len(call.x.data) :
                            call.x.data[p] \in DropOf(mod, call.att.out.data[p])
           /\ ran = 5 => IsResidual(mod, call.x, call.att.out, x0)
           /\ ran >= 6 => /\ IsResidual(mod, y, call.att.out, x0)
                          /\ y # x0
           /\ ran = 6 => call.x = y
           /\ ran = 7 => call.x = LayerNormApply(mod.params.norm2, y)
           /\ ran = 8 => call.x = ffo
           /\ ran = 9 => \A p \in 1..Len(call.x.data) :
                            call.x.data[p] \in DropOf(mod, ffo.data[p])
           /\ ran = 10 => IsResidual(mod, call.x, ffo, y)
           /\ call.pc = "done" => (call.out = call.x /\ call.out.shape = x0.shape)

\* C8 witness: a block in training mode with dropout has returned the
\* output for an input of two tokens.
C8_Witness ==
    /\ call.kind = "TransformerBlock" /\ call.status = "returned"
    /\ call.input.shape[2] = 2 /\ DropoutActive(mod)
    /\ Len(call.ops) = Len(BlockOps)


----------------------------------------------------------------------------
(* Claims about two calls (checked under SpecPair).                        *)

\* Position t (from 0) of a [1, n, d] tensor.
Position(x, t) == SubSeq(x.data, t * x.shape[3] + 1, (t + 1) * x.shape[3])

\* The two tensors agree on positions 0..i.
AgreeUpTo(a, b, i) == \A t \in 0..i : Position(a, t) = Position(b, t)

\* Both calls have returned.
BothReturned ==
    pair.op = "done" /\ pair.c[1].status = "returned" /\ pair.c[2].status = "returned"

\* C3: when two inputs to forward (of MultiHeadAttention or of
\* TransformerBlock, same weights, same generator state) agree on positions
\* 0..i and both calls return, the outputs agree on positions 0..i.
C3_FutureDoesNotChangePast ==
    BothReturned =>
        \A i \in 0..(pair.n - 1) :
            AgreeUpTo(pair.x[1], pair.x[2], i) => AgreeUpTo(pair.c[1].out, pair.c[2].out, i)

\* C3 for inputs that fit the context: the same statement for calls with at
\* most context_length tokens.
C3_FutureDoesNotChangePastInContext ==
    (BothReturned /\ pair.n <= pair.m.context_length) =>
        \A i \in 0..(pair.n - 1) :
            AgreeUpTo(pair.x[1], pair.x[2], i) => AgreeUpTo(pair.c[1].out, pair.c[2].out, i)

\* Inputs of 3 tokens that differ only in the last one have gone through a
\* block with dropout and left outputs that differ there.
C3_InContextReached ==
    /\ BothReturned /\ pair.n = 3
    /\ pair.m.kind = "TransformerBlock" /\ DropoutActive(pair.m)
    /\ AgreeUpTo(pair.x[1], pair.x[2], 1) /\ ~AgreeUpTo(pair.x[1], pair.x[2], 2)
    /\ ~AgreeUpTo(pair.c[1].out, pair.c[2].out, 2)

----------------------------------------------------------------------------
(* Claims about the attention weights (checked under SpecSoftmax).         *)

\* Row i (from 0) of the single [n, n] matrix of t.
MatrixRow(t, i) == LET n == t.shape[4] IN SubSeq(t.data, i * n + 1, (i + 1) * n)

\* C2: for num_tokens <= context_length, after masking and softmax every
\* row of the attention weights sums to 1 and every entry above the diagonal
\* is exactly 0; a row i whose unmasked scores are all equal gives 1/(i+1)
\* to each position j <= i; with one token the single weight is exactly 1.
C2_RowsAreDistributions ==
    (fn.op = "weights") =>
        LET n == fn.num_tokens
        IN \A i \in 0..(n - 1) :
              LET w == MatrixRow(fn.weights, i)
                  sc == MatrixRow(fn.scores, i)
              IN /\ \A j \in 1..n : w[j][1] = "rat" /\ w[j][2] >= 0
                 /\ SumRat(w) = Rat(1, 1)
                 /\ \A j \in 1..n : (j - 1 > i) => w[j] = Rat(0, 1)
                 /\ (\A j \in 1..(i + 1) : sc[j] = sc[1]) =>
                        \A j \in 1..(i + 1) : w[j] = Rat(1, i + 1)
                 /\ n = 1 => w[1] = Rat(1, 1)

\* C2 witness: three tokens; the last row has equal scores and weights 1/3,
\* another row has unequal weights.
C2_Witness ==
    /\ fn.op = "weights" /\ fn.num_tokens = 3 /\ fn.head_dim = 4
    /\ MatrixRow(fn.weights, 2) = <<Rat(1, 3), Rat(1, 3), Rat(1, 3)>>
    /\ MatrixRow(fn.weights, 1)[1] # MatrixRow(fn.weights, 1)[2]
    /\ MatrixRow(fn.weights, 0) = <<Rat(1, 1), Rat(0, 1), Rat(0, 1)>>


----------------------------------------------------------------------------
(* Claims about LayerNorm (checked under SpecNorm).                        *)

\* Row t (from 0) of norm_x: its numerators c and its radicands v.
NormNum(t) ==
    LET d == fn.x.shape[3]
    IN SubSeq([f \in 1..d |-> fn.norm_x.data[t * d + f][2]], 1, d)

NormRad(t) ==
    LET d == fn.x.shape[3]
    IN SubSeq([f \in 1..d |-> fn.norm_x.data[t * d + f][3]], 1, d)

\* The biased variance of the normalized row t when its mean is 0: the mean
\* of (c / sqrt(v))^2 = c^2 / v.
NormVariance(t) ==
    LET c == NormNum(t)
        d == Len(c)
        sq == SubSeq([f \in 1..d |-> MulRat(c[f], c[f])], 1, d)
    IN DivRat(DivRat(SumRat(sq), Rat(d, 1)), NormRad(t)[1])

\* The biased variance of a row of integers, as E[x^2] - E[x]^2.
PopulationVariance(row) ==
    LET d == Len(row)
        m == Rat(SumInt(row), d)
        m2 == Rat(SumInt(SubSeq([f \in 1..d |-> row[f] * row[f]], 1, d)), d)
    IN SubRat(m2, MulRat(m, m))

IsConstant(row) == \A f \in 1..Len(row) : row[f] = row[1]

NormComputed == fn.op \in {"ln106", "returned"}

\* The normalized row t has mean 0, one radicand, and depends on row t only.
NormRowBasics(t) ==
    LET row == IntRow(fn.x, t)
        d == Len(row)
        alone == Tensor(<<1, 1, d>>, SubSeq([f \in 1..d |-> IntV(row[f])], 1, d))
    IN /\ SumRat(NormNum(t)) = Rat(0, 1)
       /\ \A f \in 1..d : NormRad(t)[f] = NormRad(t)[1]
       /\ SubSeq(fn.norm_x.data, t * d + 1, (t + 1) * d)
              = NormX(alone, <<MeanRow(row)>>, <<VarRow(row)>>).data

\* C10 as stated: every normalized row has mean 0 and biased variance 1
\* (within 1/1000), and depends on its own row only.
C10_NormalizedVarianceOne ==
    NormComputed =>
        \A t \in 0..(Rows(fn.x) - 1) :
            /\ NormRowBasics(t)
            /\ LessRat(SubRat(Rat(1, 1), NormVariance(t)), Rat(1, 1000))

\* C10 amended: every normalized row has mean 0 and depends on its own row
\* only; with var the biased variance of the input row and eps = 1/100000,
\* its biased variance is var / (var + eps): 0 for a constant row, and
\* otherwise strictly between 0 and 1.
C10_NormalizedVarianceBelowOne ==
    NormComputed =>
        \A t \in 0..(Rows(fn.x) - 1) :
            LET row == IntRow(fn.x, t)
                var == PopulationVariance(row)
                nv == NormVariance(t)
            IN /\ NormRowBasics(t)
               /\ NormRad(t)[1] = AddRat(var, Rat(1, EpsDen))
               /\ MulRat(nv, AddRat(var, Rat(1, EpsDen))) = var
               /\ LessRat(nv, Rat(1, 1))
               /\ IsConstant(row) <=> nv = Rat(0, 1)
               /\ ~IsConstant(row) => LessRat(Rat(0, 1), nv)

\* C10 witness: two rows of three features have been normalized, the first
\* constant and the second not.
C10_Witness ==
    /\ fn.op = "returned" /\ fn.x.shape = <<1, 2, 3>>
    /\ IsConstant(IntRow(fn.x, 0)) /\ ~IsConstant(IntRow(fn.x, 1))
    /\ NormVariance(0) = Rat(0, 1) /\ NormVariance(1) # Rat(0, 1)


----------------------------------------------------------------------------
(* Claims about generate_text_simple (checked under SpecGen).              *)

\* Tokens appended so far: the iterations whose line 190 has run.
Appended == IF gen.pc \in {"g169", "returned"} THEN gen.i ELSE gen.i - 1

\* Calls of the model so far.
Invoked == IF gen.pc \in {"g173", "g177"} THEN gen.i - 1 ELSE gen.i

\* C9: the c-th call of the model receives, of every row, the last
\* context_size tokens of the sequence as it is then (all of it while it is
\* shorter); every iteration appends to every row one token, a maximum of
\* the last position's logits of that call; the tokens already there never
\* change; the loop returns the original rows followed by max_new_tokens
\* tokens.
C9_GreedyLoop ==
    LET n0 == Len(gen.idx0[1])
    IN /\ Len(gen.idx) = Len(gen.idx0)
       /\ Len(gen.calls) = Invoked
       /\ \A r \in 1..Len(gen.idx) :
              /\ Len(gen.idx[r]) = n0 + Appended
              /\ SubSeq(gen.idx[r], 1, n0) = gen.idx0[r]
              /\ \A c \in 1..Len(gen.calls) :
                     LET len == n0 + c - 1
                         seen == Min(gen.context_size, len)
                         given == gen.calls[c][r]
                     IN /\ Len(given) = seen /\ seen <= gen.context_size
                        /\ given = SubSeq(gen.idx[r], len - seen + 1, len)
                        /\ c <= Appended =>
                               LET lg == ModelLogits(gen.model, <<given>>)[1][seen]
                                   tok == gen.idx[r][n0 + c]
                               IN /\ tok \in 0..(VocabSize - 1)
                                  /\ \A v \in 1..VocabSize : lg[v] <= lg[tok + 1]
       /\ gen.pc = "returned" =>
              /\ gen.out = gen.idx
              /\ Appended = gen.max_new_tokens
              /\ Invoked = gen.max_new_tokens

\* C9 witness: three tokens have been generated for two rows of two tokens
\* with context_size = 2, so that the later calls saw a cropped sequence,
\* and both token values were generated.
C9_Witness ==
    /\ gen.pc = "returned" /\ gen.max_new_tokens = 3 /\ gen.context_size = 2
    /\ Len(gen.idx0) = 2 /\ Len(gen.idx0[1]) = 2
    /\ Len(gen.calls[3][1]) = 2
    /\ \E p, q \in 3..5 : gen.out[1][p] # gen.out[1][q]


----------------------------------------------------------------------------
(* Claims about the heads (checked under SpecHeads).                       *)

\* The features of head h at position t (from 0) of a [1, n, d_out] tensor.
HeadSlice(x, t, h) ==
    LET d_out == x.shape[3]
        hd == pair.m.head_dim
    IN SubSeq(x.data, t * d_out + h * hd + 1, t * d_out + (h + 1) * hd)

\* The two tensors agree on the features of head h at every position.
SameHead(a, b, h) == \A t \in 0..(pair.n - 1) : HeadSlice(a, t, h) = HeadSlice(b, t, h)

HeadsDone == pair.u[1].pc = "done" /\ pair.u[1].status = "ok" /\ pair.u[2].status = "ok"

\* C11: when two runs of forward differ only in the projected queries, keys
\* or values of other heads, the slice [h*head_dim, (h+1)*head_dim) of the
\* merged context vector is the same in both at every position.
C11_HeadsAreIndependent ==
    HeadsDone =>
        \A h \in 0..(pair.m.num_heads - 1) :
            (/\ SameHead(pair.u[1].q, pair.u[2].q, h)
             /\ SameHead(pair.u[1].k, pair.u[2].k, h)
             /\ SameHead(pair.u[1].v, pair.u[2].v, h))
                => SameHead(pair.u[1].context_vec, pair.u[2].context_vec, h)

\* C11 witness: two heads, three tokens, dropout active; the queries of
\* head 1 were changed, the context of head 1 differs and that of head 0
\* does not.
C11_Witness ==
    /\ HeadsDone /\ pair.m.num_heads = 2 /\ pair.m.head_dim = 2 /\ pair.n = 3
    /\ DropoutActive(pair.m) /\ pair.changed = 1
    /\ SameHead(pair.u[1].k, pair.u[2].k, 1) /\ ~SameHead(pair.u[1].q, pair.u[2].q, 1)
    /\ ~SameHead(pair.u[1].context_vec, pair.u[2].context_vec, 1)
    /\ SameHead(pair.u[1].context_vec, pair.u[2].context_vec, 0)

----------------------------------------------------------------------------
(* Claims about what forward writes (checked under SpecMem).               *)

\* The storages written in place since the module was built.
WrittenStorages == {k \in 1..Len(heap) : heap[k].written # 0}

\* The caller's input tensor holds the elements the caller put there.
InputIntact ==
    call.now >= 1 =>
        /\ heap[call.input.sid].data = Elems("x", Prod(call.input.shape))
        /\ heap[call.input.sid].written = 0

\* C12: after any sequence of forward calls on a MultiHeadAttention or a
\* TransformerBlock, on inputs of up to context_length tokens, the mask
\* buffer still holds the strictly upper-triangular matrix of line 52, the
\* parameters and the caller's input tensor are unchanged, and the only
\* storage written in place is the one of the attn_scores of the call,
\* allocated by that call at line 74.
C12_ForwardWritesOnlyItsScores ==
    /\ heap[1].data = MaskData(mod.context_length)
    /\ \A k \in 1..Len(ParamNames(mod)) :
          heap[1 + k].data = <<mod.params[ParamNames(mod)[k]]>>
    /\ InputIntact
    /\ \A k \in WrittenStorages :
          /\ k = call.attn_scores.sid
          /\ heap[k].born = call.now /\ heap[k].written = call.now

\* Reached: the last of several calls of a TransformerBlock in evaluation
\* mode has returned, on an input of more than one token and fewer than
\* context_length, and its fill wrote -inf into its scores.
C12_Witness ==
    /\ heap # Null /\ call.pc = "done" /\ call.now = MaxCalls
    /\ mod.kind = "TransformerBlock" /\ ~mod.training
    /\ 1 < call.input.shape[2] /\ call.input.shape[2] < mod.context_length
    /\ heap[call.attn_scores.sid].written = call.now
    /\ \E p \in 1..Len(heap[call.attn_scores.sid].data) :
          IsNegInf(heap[call.attn_scores.sid].data[p])

====
